---- MODULE Spec2Model ----
(***************************************************************************)
(* Model of the pqca package: coordinate vectors (vector.py), the lattice  *)
(* partitioner (tessellation.py), the winding of a cell circuit over a     *)
(* partition (update_frame.py) and the automaton (automaton.py).           *)
(*                                                                         *)
(* A Python list is a TLA+ sequence (1-based, so the Python index i is the *)
(* TLA+ index i+1).  A Vector is the sequence of its entries.  A call that *)
(* raises returns no object: its result carries the exception's name in    *)
(* err and the empty Tessellation NoTess.                                  *)
(***************************************************************************)
EXTENDS Integers, Sequences, FiniteSets, TLC

VARIABLES
    op,           \* name of the last operation called
    args,         \* its arguments, a sequence of integer sequences
    err,          \* "none", or the name of the exception it raised
    tess,         \* the Tessellation it returned, or the one handed to
                  \* UpdateFrame (NoTess if none)
    self,         \* the Tessellation a method was called on, as it is after
                  \* the call (NoTess for a function)
    orig,         \* the receiver of the method call before, in a chain of shifts,
                  \* as it is after the last call
    prev_amount,  \* the amount of the shift before, in a chain of shifts
    vec,          \* the Vector returned by Vector arithmetic
    name,         \* the integer returned by _vector_to_name
    shared,       \* the addresses of the lists of the returned Tessellation that
                  \* are lists of a Tessellation there was before the call
    circuit,      \* the cell circuit handed to UpdateFrame
    frame,        \* the UpdateFrame it returned (NoFrame if none)
    automaton,    \* the Automaton or PQCA (NoAutomaton before it is built)
    ticking       \* the calls on it, one per thread: where each call is, its
                  \* local values, what it returned or raised, and the thread
                  \* that assigned the state last

automaton_vars == <<automaton, ticking>>

vars == <<op, args, err, tess, self, orig, prev_amount, vec, name, shared,
          circuit, frame, automaton, ticking>>

----------------------------------------------------------------------------
(* Bounds of the explored inputs. *)

MaxCells == 2      \* cells in a cell list handed to Tessellation(...)
MaxSites == 3      \* sites, over all cells, in such a cell list
MaxName == 2       \* largest site name in such a cell list (smallest: -1)
MaxDim == 2        \* dimensions of a lattice
MaxExtent == 4     \* extent of a lattice or of a cell along one dimension
MaxLine == 10      \* length of a line handed to one_dimensional
MaxShift == 8      \* largest absolute shift amount
MaxFactor == 1     \* largest m of a renaming x -> m*x + d
MaxOffset == 2     \* largest absolute d of a renaming x -> m*x + d
MaxFrameLine == 4  \* length of a line handed to UpdateFrame
MaxQubits == 3     \* qubits of a cell circuit
MaxOps == 2        \* instructions of a cell circuit
MaxLattice == 2    \* sites of the lattice of an Automaton
MaxFrames == 2     \* update frames of an Automaton
MaxIter == 2       \* largest number_of_iterations handed to iterate

Min(a, b) == IF a < b THEN a ELSE b

SeqsUpTo(S, n) == UNION {[1..k -> S] : k \in 0..n}

RECURSIVE CellListsWithin(_, _)
CellListsWithin(cellsLeft, sitesLeft) ==
    IF cellsLeft = 0 THEN {<<>>}
    ELSE {<<>>} \cup
         UNION {{<<c>> \o rest :
                    rest \in CellListsWithin(cellsLeft - 1, sitesLeft - Len(c))} :
                c \in SeqsUpTo((-1)..MaxName, sitesLeft)}

CellLists == CellListsWithin(MaxCells, MaxSites)
Extents == 0..MaxExtent
Shapes == SeqsUpTo(Extents, MaxDim)
Vectors == SeqsUpTo((-1)..MaxExtent, MaxDim)
Amounts == (-MaxShift)..MaxShift

----------------------------------------------------------------------------
(* vector.py *)

\* Vector.action: zip stops at the shorter operand.  A Python callable is a
\* TLA+ function.
action(v, other, f) ==
    [i \in 1..Min(Len(v), Len(other)) |-> f[v[i], other[i]]]

add(v, other) == action(v, other, [x \in Int, y \in Int |-> x + y])

sub(v, other) == action(v, other, [x \in Int, y \in Int |-> x - y])

----------------------------------------------------------------------------
(* tessellation.py: class Tessellation *)

NoTess == [cells |-> <<>>, size |-> 0]

Raise(e) == [err |-> e, cells |-> <<>>, size |-> 0]

RECURSIVE SumLens(_)
SumLens(cells) ==
    IF cells = <<>> THEN 0 ELSE Len(Head(cells)) + SumLens(Tail(cells))

SetOfQubits(cells) ==
    UNION {{cells[i][j] : j \in 1..Len(cells[i])} : i \in 1..Len(cells)}

\* Tessellation.__init__
Tessellation(cells) ==
    IF Len(cells) = 0 THEN Raise("NoCellsException")
    ELSE IF Len(cells[1]) = 0 THEN Raise("EmptyCellException")
    ELSE LET size == SumLens(cells) IN
         IF Cardinality(SetOfQubits(cells)) # size
         THEN Raise("PartitionUnevenlyCoversQubits")
         ELSE IF Cardinality({Len(cells[i]) : i \in 1..Len(cells)}) # 1
         THEN Raise("IrregularCellSize")
         ELSE [err |-> "none", cells |-> cells, size |-> size]

\* make_address_positive with each while loop replaced by a single adjustment
make_address_positive_once(qubit_name, size) ==
    IF qubit_name < 0 THEN qubit_name + size
    ELSE IF qubit_name >= size THEN qubit_name - size
    ELSE qubit_name

\* make_address_positive with the second loop running while qubit_name > size
RECURSIVE make_address_positive_off_by_one(_, _)
make_address_positive_off_by_one(qubit_name, size) ==
    IF qubit_name < 0 THEN make_address_positive_off_by_one(qubit_name + size, size)
    ELSE IF qubit_name > size
    THEN make_address_positive_off_by_one(qubit_name - size, size)
    ELSE qubit_name

RECURSIVE make_address_positive(_, _)
make_address_positive(qubit_name, size) ==
    IF qubit_name < 0 THEN make_address_positive(qubit_name + size, size)
    ELSE IF qubit_name >= size THEN make_address_positive(qubit_name - size, size)
    ELSE qubit_name

\* Tessellation.update_names
update_names(t, name_update, rename_modulo_size) ==
    IF rename_modulo_size
    THEN Tessellation([c \in 1..Len(t.cells) |->
             [p \in 1..Len(t.cells[c]) |->
                 make_address_positive(name_update[t.cells[c][p]], t.size)]])
    ELSE Tessellation([c \in 1..Len(t.cells) |->
             [p \in 1..Len(t.cells[c]) |-> name_update[t.cells[c][p]]]])

\* Tessellation.shifted_by
shifted_by(t, amount) == update_names(t, [x \in Int |-> x + amount], TRUE)

\* The lists and the Tessellation objects of the interpreter.  heap[a] is the
\* list at address a: a cell holds names, a list of cells holds the addresses
\* of its cells.  objects[o] holds the attributes of Tessellation o: cells is
\* the address of its list of cells.  result is the object a call returned
\* (0 when it raised).
Store(t) ==
    [heap |-> t.cells \o << [c \in 1..Len(t.cells) |-> c] >>,
     objects |-> << [cells |-> Len(t.cells) + 1, size |-> t.size] >>,
     result |-> 1,
     err |-> "none"]

\* What Tessellation o holds: its cells read through its references.
Load(m, o) ==
    LET cells == m.heap[m.objects[o].cells] IN
    [cells |-> [c \in 1..Len(cells) |-> m.heap[cells[c]]],
     size |-> m.objects[o].size]

\* The addresses of the lists of Tessellation o.
Lists(m, o) ==
    LET cells == m.heap[m.objects[o].cells] IN
    {m.objects[o].cells} \cup {cells[c] : c \in 1..Len(cells)}

\* Tessellation.__init__ handed the list at address cells: the new object
\* keeps the reference (self.cells = cells), and a failed check leaves no object.
new_Tessellation(m, cells) ==
    LET held == [c \in 1..Len(m.heap[cells]) |-> m.heap[m.heap[cells][c]]]
        r == Tessellation(held)
    IN IF r.err # "none" THEN [m EXCEPT !.result = 0, !.err = r.err]
       ELSE [m EXCEPT !.objects = Append(@, [cells |-> cells, size |-> r.size]),
                      !.result = Len(m.objects) + 1,
                      !.err = "none"]

\* update_names writing the new names into the cells of the receiver and
\* handing the constructor the receiver's list of cells
update_names_in_place(m, o, name_update, rename_modulo_size) ==
    LET cells == m.heap[m.objects[o].cells]
        size == m.objects[o].size
        renamed == [a \in 1..Len(m.heap) |->
                       IF a \in {cells[c] : c \in 1..Len(cells)}
                       THEN [p \in 1..Len(m.heap[a]) |->
                                IF rename_modulo_size
                                THEN make_address_positive(name_update[m.heap[a][p]], size)
                                ELSE name_update[m.heap[a][p]]]
                       ELSE m.heap[a]]
    IN new_Tessellation([m EXCEPT !.heap = renamed], m.objects[o].cells)

\* Tessellation.update_names on Tessellation o: the inner comprehension builds
\* a new list for every cell of self.cells, the outer one a new list of them,
\* and the constructor is handed that list.  No statement assigns to an
\* attribute of self or to an element of one of its lists.
update_names_in_memory(m, o, name_update, rename_modulo_size) ==
    LET cells == m.heap[m.objects[o].cells]
        size == m.objects[o].size
        first == Len(m.heap)
        built == [c \in 1..Len(cells) |->
                     [p \in 1..Len(m.heap[cells[c]]) |->
                         IF rename_modulo_size
                         THEN make_address_positive(name_update[m.heap[cells[c]][p]], size)
                         ELSE name_update[m.heap[cells[c]][p]]]]
        list_of_cells == [c \in 1..Len(cells) |-> first + c]
    IN new_Tessellation([m EXCEPT !.heap = m.heap \o built \o << list_of_cells >>],
                        first + Len(cells) + 1)

\* The Tessellation a call returned, read from the memory it left.
Returned_from(m) == IF m.result = 0 THEN NoTess ELSE Load(m, m.result)

\* The lists of the returned Tessellation that are lists of one of the
\* Tessellations there were before the call.
shared_lists(m, before) ==
    IF m.result = 0 THEN {}
    ELSE Lists(m, m.result) \cap UNION {Lists(m, o) : o \in 1..before}

----------------------------------------------------------------------------
(* tessellation.py: module functions *)

\* range(0, stop, step) that also yields the first value at or past stop
PyRange_inclusive(stop, step) ==
    [i \in 1..((stop + step - 1) \div step) + 1 |-> (i - 1) * step]

\* range(0, stop, step) for step > 0
PyRange(stop, step) ==
    [i \in 1..((stop + step - 1) \div step) |-> (i - 1) * step]

\* itertools.product with the first sequence varying fastest
RECURSIVE product_first_fastest(_)
product_first_fastest(seqs) ==
    IF seqs = <<>> THEN << <<>> >>
    ELSE LET h == Head(seqs)
             rest == product_first_fastest(Tail(seqs))
             n == Len(h)
         IN [k \in 1..(n * Len(rest)) |->
                <<h[((k - 1) % n) + 1]>> \o rest[((k - 1) \div n) + 1]]

\* itertools.product(*seqs): the first sequence varies slowest
RECURSIVE product(_)
product(seqs) ==
    IF seqs = <<>> THEN << <<>> >>
    ELSE LET h == Head(seqs)
             rest == product(Tail(seqs))
             n == Len(rest)
         IN [k \in 1..(Len(h) * n) |->
                <<h[((k - 1) \div n) + 1]>> \o rest[((k - 1) % n) + 1]]

_cell_of_given_size(cell_dimension) ==
    product([i \in 1..Len(cell_dimension) |-> PyRange(cell_dimension[i], 1)])

\* functools.reduce with multiply adding its operands
RECURSIVE reduce_multiply_adds(_, _)
reduce_multiply_adds(entries, acc) ==
    IF entries = <<>> THEN acc
    ELSE reduce_multiply_adds(Tail(entries), Head(entries) + acc)

\* functools.reduce(multiply, entries, 1)
RECURSIVE reduce_multiply(_, _)
reduce_multiply(entries, acc) ==
    IF entries = <<>> THEN acc
    ELSE reduce_multiply(Tail(entries), Head(entries) * acc)

\* sum_weighted_lengths weighting by the slice [index:] instead of [index+1:]
sum_weighted_lengths_own_dimension(index, length, acc, qubits_in_each_dimension) ==
    acc + length * reduce_multiply(
        SubSeq(qubits_in_each_dimension, index + 1, Len(qubits_in_each_dimension)), 1)

\* sum_weighted_lengths of _vector_to_name; index is the Python index
sum_weighted_lengths(index, length, acc, qubits_in_each_dimension) ==
    acc + length * reduce_multiply(
        SubSeq(qubits_in_each_dimension, index + 2, Len(qubits_in_each_dimension)), 1)

\* functools.reduce(unpack, enumerate(entries), 0), from position i on
RECURSIVE reduce_unpack(_, _, _, _)
reduce_unpack(entries, i, acc, qubits_in_each_dimension) ==
    IF i > Len(entries) THEN acc
    ELSE reduce_unpack(entries, i + 1,
             sum_weighted_lengths(i - 1, entries[i], acc, qubits_in_each_dimension),
             qubits_in_each_dimension)

_vector_to_name(qubit_vector, qubits_in_each_dimension) ==
    reduce_unpack(qubit_vector, 1, 0, qubits_in_each_dimension)

\* The assert of the first loop testing divisibility in the first dimension only
DimensionIsRegular_first_only(index, qubits_in_each_dimension, cell_size) ==
    /\ index <= Len(cell_size)
    /\ cell_size[index] # 0
    /\ index > 1 \/ qubits_in_each_dimension[index] % cell_size[index] = 0

\* The assert of n_dimensional's first loop, for one dimension: IndexError,
\* ZeroDivisionError and AssertionError are all caught by the bare except.
DimensionIsRegular(index, qubits_in_each_dimension, cell_size) ==
    /\ index <= Len(cell_size)
    /\ cell_size[index] # 0
    /\ qubits_in_each_dimension[index] % cell_size[index] = 0

n_dimensional(qubits_in_each_dimension, cell_size) ==
    IF \E index \in 1..Len(qubits_in_each_dimension) :
          ~DimensionIsRegular(index, qubits_in_each_dimension, cell_size)
    THEN Raise("IrregularCoordinateDimensions")
    ELSE LET focal_points ==
                 product([index \in 1..Len(qubits_in_each_dimension) |->
                     PyRange(qubits_in_each_dimension[index], cell_size[index])])
             points_in_first_cell == _cell_of_given_size(cell_size)
             cells_as_vectors ==
                 [f \in 1..Len(focal_points) |->
                     [d \in 1..Len(points_in_first_cell) |->
                         add(focal_points[f], points_in_first_cell[d])]]
             cells ==
                 [c \in 1..Len(cells_as_vectors) |->
                     [q \in 1..Len(cells_as_vectors[c]) |->
                         _vector_to_name(cells_as_vectors[c][q],
                                         qubits_in_each_dimension)]]
         IN Tessellation(cells)

\* one_dimensional handing its arguments over in the wrong order
one_dimensional_swapped(num_qubits, cell_size) ==
    n_dimensional(<<cell_size>>, <<num_qubits>>)

one_dimensional(num_qubits, cell_size) ==
    n_dimensional(<<num_qubits>>, <<cell_size>>)

----------------------------------------------------------------------------
(* The legacy package, src/pqca/tessellation.py *)

\* The legacy Tessellation.__init__, which asserts its conditions.
legacy_Tessellation(cells) ==
    IF Len(cells) = 0 THEN Raise("AssertionError")
    ELSE IF Len(cells[1]) = 0 THEN Raise("AssertionError")
    ELSE IF Cardinality(SetOfQubits(cells)) # SumLens(cells) THEN Raise("AssertionError")
    ELSE IF Cardinality({Len(cells[c]) : c \in 1..Len(cells)}) # 1
    THEN Raise("AssertionError")
    ELSE [err |-> "none", cells |-> cells, size |-> SumLens(cells)]

cell_of_given_size(cell_dimension) ==
    product([i \in 1..Len(cell_dimension) |-> PyRange(cell_dimension[i], 1)])

\* multiplicative_rename_scale: the product of the extents before dimension
RECURSIVE multiplicative_rename_scale(_, _)
multiplicative_rename_scale(dimension, qubits_in_each_dimension) ==
    IF dimension <= 0 THEN 1
    ELSE multiplicative_rename_scale(dimension - 1, qubits_in_each_dimension)
            * qubits_in_each_dimension[dimension]

\* vector_to_name, from position i on
RECURSIVE vector_to_name(_, _, _)
vector_to_name(qubit_vector, i, qubits_in_each_dimension) ==
    IF i > Len(qubit_vector) THEN 0
    ELSE qubit_vector[i] * multiplicative_rename_scale(i - 1, qubits_in_each_dimension)
            + vector_to_name(qubit_vector, i + 1, qubits_in_each_dimension)

\* What the assert of the first loop does for one dimension.
legacy_assert(index, qubits_in_each_dimension, cell_dimension) ==
    IF index > Len(cell_dimension) THEN "IndexError"
    ELSE IF cell_dimension[index] = 0 THEN "ZeroDivisionError"
    ELSE IF qubits_in_each_dimension[index] % cell_dimension[index] # 0
    THEN "AssertionError"
    ELSE "none"

\* The legacy n_dimensional: the focal points step by the number of cells
\* along a dimension, int(a / b), and range refuses a step of 0.
legacy_n_dimensional(qubits_in_each_dimension, cell_dimension) ==
    LET failing == {index \in 1..Len(qubits_in_each_dimension) :
                       legacy_assert(index, qubits_in_each_dimension, cell_dimension)
                          # "none"}
    IN
    IF failing # {}
    THEN Raise(legacy_assert(CHOOSE index \in failing : \A other \in failing : index <= other,
                             qubits_in_each_dimension, cell_dimension))
    ELSE LET number_steps_in_any_dimension ==
                 [i \in 1..Len(qubits_in_each_dimension) |->
                     qubits_in_each_dimension[i] \div cell_dimension[i]]
         IN
         IF \E i \in 1..Len(number_steps_in_any_dimension) :
               number_steps_in_any_dimension[i] = 0
         THEN Raise("ValueError")
         ELSE LET focal_points ==
                      product([i \in 1..Len(qubits_in_each_dimension) |->
                          PyRange(qubits_in_each_dimension[i],
                                  number_steps_in_any_dimension[i])])
                  points_in_first_cell == cell_of_given_size(cell_dimension)
                  cells_as_vectors ==
                      [f \in 1..Len(focal_points) |->
                          [d \in 1..Len(points_in_first_cell) |->
                              add(focal_points[f], points_in_first_cell[d])]]
                  cells ==
                      [c \in 1..Len(cells_as_vectors) |->
                          [q \in 1..Len(cells_as_vectors[c]) |->
                              vector_to_name(cells_as_vectors[c][q], 1,
                                             qubits_in_each_dimension)]]
              IN legacy_Tessellation(cells)

----------------------------------------------------------------------------
(* update_frame.py *)

\* A QuantumCircuit with one quantum register: the number of its qubits and
\* its data, a list of (instruction, qargs, cargs) in which a qubit is the
\* index it has in the register (q.index, from 0).
NoCircuit == [num_qubits |-> 0, data |-> <<>>]

Instructions(n) ==
    {[instruction |-> g, qargs |-> <<q>>, cargs |-> <<>>] :
        g \in {"x", "h"}, q \in 0..(n - 1)}
    \cup {[instruction |-> "cx", qargs |-> <<q[1], q[2]>>, cargs |-> <<>>] :
             q \in {r \in (0..(n - 1)) \X (0..(n - 1)) : r[1] # r[2]}}

Circuits ==
    UNION {{[num_qubits |-> n, data |-> d] : d \in SeqsUpTo(Instructions(n), MaxOps)} :
              n \in 1..MaxQubits}

NoFrame == [cell_circuit |-> NoCircuit, tessellation |-> NoTess,
            full_circuit_instructions |-> <<>>]

\* the qargs taken by their position in the instruction, not by their index
wind_cell_by_position(cell, data) ==
    [k \in 1..Len(data) |->
        [instruction |-> data[k].instruction,
         qargs |-> [j \in 1..Len(data[k].qargs) |-> cell[j]],
         cargs |-> data[k].cargs]]

\* The inner loop of _wind_circuit_around_loop: the instructions of the
\* circuit, each pointing at the qubits cell[q.index] of the cell.
wind_cell(cell, data) ==
    [k \in 1..Len(data) |->
        [instruction |-> data[k].instruction,
         qargs |-> [j \in 1..Len(data[k].qargs) |-> cell[data[k].qargs[j] + 1]],
         cargs |-> data[k].cargs]]

\* the outer loop winding every cell's instructions onto the first cell
RECURSIVE wind_cells_onto_first(_, _)
wind_cells_onto_first(cells, data) ==
    IF cells = <<>> THEN <<>>
    ELSE wind_cell(Head(cells), data)
         \o wind_cells_onto_first([i \in 1..(Len(cells) - 1) |-> Head(cells)], data)

\* The outer loop: next_column, appended to cell after cell.
RECURSIVE wind_cells(_, _)
wind_cells(cells, data) ==
    IF cells = <<>> THEN <<>>
    ELSE wind_cell(Head(cells), data) \o wind_cells(Tail(cells), data)

\* the size check made on the qubits the instructions use
_wind_checking_used_qubits(circ, tessellation) ==
    IF \E k \in 1..Len(circ.data) : \E j \in 1..Len(circ.data[k].qargs) :
           circ.data[k].qargs[j] >= Len(tessellation.cells[1])
    THEN [err |-> "CircuitWrongShapeForCell", instructions |-> <<>>]
    ELSE [err |-> "none",
          instructions |->
              wind_cells(tessellation.cells,
                         [k \in 1..Len(circ.data) |->
                             [circ.data[k] EXCEPT !.qargs =
                                 [j \in 1..Len(@) |-> @[j] % Len(tessellation.cells[1])]]])]

_wind_circuit_around_loop(circ, tessellation) ==
    IF circ.num_qubits > Len(tessellation.cells[1])
    THEN [err |-> "CircuitWrongShapeForCell", instructions |-> <<>>]
    ELSE [err |-> "none", instructions |-> wind_cells(tessellation.cells, circ.data)]

\* UpdateFrame.__init__
UpdateFrame(tessellation, qiskit_circuit) ==
    LET w == _wind_circuit_around_loop(qiskit_circuit, tessellation) IN
    IF w.err # "none" THEN [err |-> w.err, frame |-> NoFrame]
    ELSE [err |-> "none",
          frame |-> [cell_circuit |-> qiskit_circuit,
                     tessellation |-> tessellation,
                     full_circuit_instructions |-> w.instructions]]

----------------------------------------------------------------------------
(* automaton.py, backend.py and iterate of the PQCA class *)

RECURSIVE Concat(_)
Concat(lists) == IF lists = <<>> THEN <<>> ELSE Head(lists) \o Concat(Tail(lists))

\* the frames taken last to first
update_instruction_last_first(frames) ==
    Concat([i \in 1..Len(frames) |->
               frames[Len(frames) + 1 - i].full_circuit_instructions])

\* self.update_instruction: the instructions of the frames, frame after frame
update_instruction_of(frames) ==
    Concat([i \in 1..Len(frames) |-> frames[i].full_circuit_instructions])

\* backend is TRUE for a callable and FALSE for None.  class tells the
\* Automaton of the package from the PQCA of the package before it.
NoAutomaton == [class |-> "none", frames |-> <<>>, backend |-> FALSE,
                update_instruction |-> <<>>, state |-> <<>>,
                update_circuit |-> NoCircuit]

\* Automaton.__init__
Automaton(initial_state, frames, backend) ==
    [class |-> "Automaton",
     frames |-> frames,
     backend |-> backend,
     update_instruction |-> update_instruction_of(frames),
     state |-> initial_state,
     update_circuit |-> [num_qubits |-> Len(initial_state),
                         data |-> update_instruction_of(frames)]]

\* UpdateFrame of the package before: the wound instructions are kept in
\* tessellated_gates, and the object has no full_circuit_instructions.
legacy_UpdateFrame(tessellation, qiskit_circuit) ==
    LET w == _wind_circuit_around_loop(qiskit_circuit, tessellation) IN
    IF w.err # "none" THEN [err |-> w.err, frame |-> NoFrame]
    ELSE [err |-> "none",
          frame |-> [cell_circuit |-> qiskit_circuit,
                     tessellation |-> tessellation,
                     tessellated_gates |-> w.instructions]]

\* PQCA.__init__: it reads full_circuit_instructions of every frame, and
\* raises AttributeError at the first frame that has none.
PQCA(initial_state, frames, backend) ==
    IF \E i \in 1..Len(frames) : "full_circuit_instructions" \notin DOMAIN frames[i]
    THEN [err |-> "AttributeError", automaton |-> NoAutomaton]
    ELSE [err |-> "none",
          automaton |-> [class |-> "PQCA",
                         frames |-> frames,
                         backend |-> backend,
                         update_instruction |-> update_instruction_of(frames),
                         state |-> initial_state,
                         update_circuit |-> [num_qubits |-> Len(initial_state),
                                             data |-> update_instruction_of(frames)]]]

\* an x on every qubit whose bit is not set
_pattern_preparation_circuit_unset(pattern) ==
    [num_qubits |-> Len(pattern),
     data |-> LET qubits == SelectSeq([i \in 1..Len(pattern) |-> i - 1],
                                      LAMBDA qubit : pattern[qubit + 1] = 0)
              IN [i \in 1..Len(qubits) |->
                     [instruction |-> "x", qargs |-> <<qubits[i]>>, cargs |-> <<>>]]]

\* An x on every qubit of a truthy entry, in the order of enumerate.
_pattern_preparation_circuit(pattern) ==
    [num_qubits |-> Len(pattern),
     data |-> LET qubits == SelectSeq([i \in 1..Len(pattern) |-> i - 1],
                                      LAMBDA qubit : pattern[qubit + 1] # 0)
              IN [i \in 1..Len(qubits) |->
                     [instruction |-> "x", qargs |-> <<qubits[i]>>, cargs |-> <<>>]]]

\* Automaton.combined_circuit: preparation_circuit + update_circuit.  Both
\* circuits have one register of the same name, and the addition refuses two
\* such registers of different sizes.
combined_circuit(a) ==
    LET preparation_circuit == _pattern_preparation_circuit(a.state) IN
    IF preparation_circuit.num_qubits # a.update_circuit.num_qubits
    THEN [err |-> "CircuitError", circuit |-> NoCircuit]
    ELSE [err |-> "none",
          circuit |-> [num_qubits |-> preparation_circuit.num_qubits,
                       data |-> preparation_circuit.data \o a.update_circuit.data]]

\* What one invocation of the evaluator does (run_circuit_on_backend): it
\* returns the measured bits, or raises BackendError(results.status).
Succeeds(bits) == [success |-> TRUE, bits |-> bits, status |-> ""]
Fails(s) == [success |-> FALSE, bits |-> <<>>, status |-> s]

Bits(n) == [1..n -> {0, 1}]

\* The outcomes of an evaluator on a lattice of n sites: any bits of the
\* length of the lattice, bits one shorter or one longer, or a failure.
Outcomes(n) ==
    {Succeeds(b) : b \in UNION {Bits(m) : m \in {n - 1, n, n + 1} \ {0}}}
    \cup {Fails(s) : s \in {"ERROR", "CANCELLED"}}

\* The outcomes of the evaluators iterate is run with.
IterateOutcomes(n) ==
    {Succeeds([i \in 1..n |-> 0]), Succeeds([i \in 1..n |-> 1]),
     Succeeds([i \in 1..(n + 1) |-> 1]), Fails("ERROR")}

\* The threads that call methods of one automaton, and a thread that has
\* not called yet.  pc is where the thread is in its call: "called" before
\* the first statement of a tick, "prepared" while the evaluator runs,
\* "evaluated" when it has returned, "assigned" after the assignment to the
\* state, "returned" or "raised" when the call is over.
Threads == {1, 2}

Idle ==
    [pc |-> "ready",
     call |-> "none",             \* the method called
     number_of_iterations |-> 0,  \* the argument of iterate
     pattern_sequence |-> <<>>,   \* the local list of iterate
     combined_circuit |-> NoCircuit,  \* the circuit handed to the evaluator
     prepared_from |-> <<>>,      \* the state that circuit was built from
     prepared_after |-> 0,        \* the thread that had assigned last by then
     next_pattern |-> <<>>,       \* the local next_pattern of the tick
     before |-> NoAutomaton,      \* the automaton when the call began
     calls |-> <<>>,              \* the evaluator's invocations by the call
     disturbed |-> FALSE,         \* another thread assigned during the call
     result |-> <<>>,             \* what the call returned
     err |-> "none",              \* the exception it raised
     status |-> ""]               \* the status carried by its BackendError

NoTicking == [thread |-> [t \in Threads |-> Idle], last_assigned |-> 0]

\* The Automaton has __next__ (and no iterate); the PQCA has tick and iterate.
has_method(a, method) ==
    IF a.class = "Automaton" THEN method = "next" ELSE method \in {"tick", "iterate"}

\* A thread calls a method: the attribute lookup, and the part of the call
\* before its first tick.  iterate with no iteration to make returns its
\* empty list.
begin(a, method, number_of_iterations) ==
    LET c == [Idle EXCEPT !.call = method,
                          !.number_of_iterations = number_of_iterations,
                          !.before = a]
    IN IF ~has_method(a, method)
       THEN [c EXCEPT !.pc = "raised", !.err = "AttributeError"]
       ELSE IF method = "iterate" /\ number_of_iterations <= 0
       THEN [c EXCEPT !.pc = "returned"]
       ELSE [c EXCEPT !.pc = "called"]

\* The first part of _tick (tick): the assert, and the combined circuit built
\* from the state as it is now and handed to the evaluator.
prepare(c, a, last_assigned) ==
    IF ~a.backend THEN [c EXCEPT !.pc = "raised", !.err = "AssertionError"]
    ELSE LET combined == combined_circuit(a) IN
         IF combined.err # "none"
         THEN [c EXCEPT !.pc = "raised", !.err = combined.err]
         ELSE [c EXCEPT !.pc = "prepared",
                        !.combined_circuit = combined.circuit,
                        !.prepared_from = a.state,
                        !.prepared_after = last_assigned]

\* the evaluator invoked once more after a failure
evaluated_retrying(c, outcome) ==
    LET invoked == [circuit |-> c.combined_circuit, outcome |-> outcome] IN
    IF outcome.success
    THEN [c EXCEPT !.pc = "evaluated", !.next_pattern = outcome.bits,
                   !.calls = Append(@, invoked)]
    ELSE [c EXCEPT !.pc = "raised", !.err = "BackendError",
                   !.status = outcome.status,
                   !.calls = Append(Append(@, invoked), invoked)]

\* a failure of the evaluator ending the call with the states so far
evaluated_returning_partial(c, outcome) ==
    LET invoked == [circuit |-> c.combined_circuit, outcome |-> outcome] IN
    IF outcome.success
    THEN [c EXCEPT !.pc = "evaluated", !.next_pattern = outcome.bits,
                   !.calls = Append(@, invoked)]
    ELSE [c EXCEPT !.pc = "returned", !.result = c.pattern_sequence,
                   !.calls = Append(@, invoked)]

\* The evaluator returns to the thread, which binds next_pattern, or raises
\* (run_circuit_on_backend: BackendError(results.status)), which ends the
\* call: neither _tick nor __next__ nor iterate catches anything.
evaluated(c, outcome) ==
    LET invoked == [circuit |-> c.combined_circuit, outcome |-> outcome] IN
    IF outcome.success
    THEN [c EXCEPT !.pc = "evaluated", !.next_pattern = outcome.bits,
                   !.calls = Append(@, invoked)]
    ELSE [c EXCEPT !.pc = "raised", !.err = "BackendError",
                   !.status = outcome.status,
                   !.calls = Append(@, invoked)]

\* the assignment dropped when the state is no longer the one prepared from
assign_state_if_unchanged(a, next_pattern, prepared_from) ==
    IF a.state = prepared_from THEN [a EXCEPT !.state = next_pattern] ELSE a

\* self.state = next_pattern, whatever the state has become since the
\* preparation circuit was built from it
assign_state(a, next_pattern, prepared_from) == [a EXCEPT !.state = next_pattern]

\* What follows _tick (tick) in the method called, each reading the state as
\* it is by then: __next__ returns self.state; tick returns nothing; iterate
\* appends self.state.copy() and goes on to its next tick, or returns the list.
after_tick(c, a) ==
    IF c.call = "next" THEN [c EXCEPT !.pc = "returned", !.result = a.state]
    ELSE IF c.call = "tick" THEN [c EXCEPT !.pc = "returned"]
    ELSE LET pattern_sequence == Append(c.pattern_sequence, a.state) IN
         IF Len(pattern_sequence) < c.number_of_iterations
         THEN [c EXCEPT !.pc = "called", !.pattern_sequence = pattern_sequence]
         ELSE [c EXCEPT !.pc = "returned", !.pattern_sequence = pattern_sequence,
                        !.result = pattern_sequence]

\* The update frames an Automaton on n sites is built from: the cell circuits
\* x(0) and cx(0, 1) wound over the cells of one site, over the one cell of
\* n sites, and over that cell shifted by one.
CellCircuits ==
    {[num_qubits |-> 1,
      data |-> << [instruction |-> "x", qargs |-> <<0>>, cargs |-> <<>>] >>],
     [num_qubits |-> 2,
      data |-> << [instruction |-> "cx", qargs |-> <<0, 1>>, cargs |-> <<>>] >>]}

FrameChoices(n) ==
    LET lines == {one_dimensional(n, 1), one_dimensional(n, n),
                  shifted_by(one_dimensional(n, n), 1)}
        built == {UpdateFrame([cells |-> t.cells, size |-> t.size], c) :
                     t \in lines, c \in CellCircuits}
    IN {r.frame : r \in {b \in built : b.err = "none"}}

\* The frame lists of an automaton: up to MaxFrames frames, or, when the
\* automaton is to be shared by two threads, no frame or one.
FrameLists(choices, by_threads) ==
    IF by_threads THEN {<<>>} \cup {<<f>> : f \in choices}
    ELSE SeqsUpTo(choices, MaxFrames)

\* The same frames built by the UpdateFrame of the package before.
LegacyFrameChoices(n) ==
    LET lines == {one_dimensional(n, 1), one_dimensional(n, n),
                  shifted_by(one_dimensional(n, n), 1)}
        built == {legacy_UpdateFrame([cells |-> t.cells, size |-> t.size], c) :
                     t \in lines, c \in CellCircuits}
    IN {r.frame : r \in {b \in built : b.err = "none"}}

----------------------------------------------------------------------------
(* The calls a client makes. *)

Init ==
    /\ op = "init"
    /\ shared = {}
    /\ circuit = NoCircuit
    /\ frame = NoFrame
    /\ automaton = NoAutomaton
    /\ ticking = NoTicking
    /\ args = <<>>
    /\ err = "none"
    /\ tess = NoTess
    /\ self = NoTess
    /\ orig = NoTess
    /\ prev_amount = 0
    /\ vec = <<>>
    /\ name = 0

\* A module function or constructor returned r.
Returned(r) ==
    /\ err' = r.err
    /\ tess' = [cells |-> r.cells, size |-> r.size]
    /\ self' = NoTess
    /\ orig' = NoTess
    /\ prev_amount' = 0
    /\ vec' = <<>>
    /\ name' = 0
    /\ shared' = {}
    /\ circuit' = NoCircuit
    /\ frame' = NoFrame
    /\ UNCHANGED automaton_vars

\* The constructor and the module functions are pure: what they return does
\* not depend on the calls made before, so a run calls one of them first and
\* only its methods after.
Construct ==
    /\ op = "init"
    /\ \E cells \in CellLists :
          /\ op' = "Tessellation"
          /\ args' = cells
          /\ Returned(Tessellation(cells))

OneDimensional ==
    /\ op = "init"
    /\ \E n \in 0..MaxLine, k \in 0..MaxLine :
          /\ op' = "one_dimensional"
          /\ args' = << <<n>>, <<k>> >>
          /\ Returned(one_dimensional(n, k))

NDimensional ==
    /\ op = "init"
    /\ \E shape \in Shapes, cell_shape \in Shapes :
          /\ op' = "n_dimensional"
          /\ args' = <<shape, cell_shape>>
          /\ Returned(n_dimensional(shape, cell_shape))

\* n_dimensional of the legacy package
LegacyNDimensional ==
    /\ op = "init"
    /\ \E shape \in Shapes, cell_shape \in Shapes :
          /\ op' = "legacy_n_dimensional"
          /\ args' = <<shape, cell_shape>>
          /\ Returned(legacy_n_dimensional(shape, cell_shape))

\* The memory when a method is called on the Tessellation the last call
\* returned: that Tessellation alone, or, when the last call was a shift,
\* the receiver of that shift and what it returned.
memory_before ==
    IF op = "shifted_by"
    THEN update_names_in_memory(Store(self), 1, [x \in Int |-> x + args[1][1]], TRUE)
    ELSE Store(tess)

\* t.shifted_by(amount) on the Tessellation the last call returned.  The
\* Tessellation the n_dimensional of the package before returns is an object
\* of that package, with methods of its own, which are not called here.
ShiftedBy ==
    /\ err = "none"
    /\ tess # NoTess
    /\ op \notin {"update_names", "legacy_n_dimensional"}
    /\ \E amount \in Amounts, m \in {memory_before} :
          \E r \in {update_names_in_memory(m, m.result,
                                           [x \in Int |-> x + amount], TRUE)} :
             /\ op' = "shifted_by"
             /\ args' = << <<amount>> >>
             /\ err' = r.err
             /\ tess' = Returned_from(r)
             /\ self' = Load(r, m.result)
             /\ shared' = shared_lists(r, Len(m.objects))
             /\ orig' = IF op = "shifted_by" THEN Load(r, 1) ELSE NoTess
             /\ prev_amount' = IF op = "shifted_by" THEN args[1][1] ELSE 0
             /\ UNCHANGED <<vec, name, circuit, frame, automaton_vars>>

\* t.update_names(lambda x: m*x + d, rename_modulo_size) on the Tessellation the
\* last call returned.  Without the wrap the names can grow with every call,
\* so a behaviour ends with its first renaming; the constructor supplies the
\* receivers whose names lie outside [0, size).
UpdateNames ==
    /\ err = "none"
    /\ tess # NoTess
    /\ op \notin {"update_names", "legacy_n_dimensional"}
    /\ \E factor \in 0..MaxFactor, d \in (-MaxOffset)..MaxOffset,
          rename_modulo_size \in BOOLEAN, m \in {memory_before} :
          \E r \in {update_names_in_memory(m, m.result,
                                           [x \in Int |-> factor * x + d],
                                           rename_modulo_size)} :
             /\ op' = "update_names"
             /\ args' = << <<factor, d>>, <<IF rename_modulo_size THEN 1 ELSE 0>> >>
             /\ err' = r.err
             /\ tess' = Returned_from(r)
             /\ self' = Load(r, m.result)
             /\ shared' = shared_lists(r, Len(m.objects))
             /\ orig' = IF op = "shifted_by" THEN Load(r, 1) ELSE NoTess
             /\ prev_amount' = 0
             /\ UNCHANGED <<vec, name, circuit, frame, automaton_vars>>

VectorToName ==
    /\ op = "init"
    /\ \E v \in Vectors, shape \in Shapes :
          /\ op' = "_vector_to_name"
          /\ args' = <<v, shape>>
          /\ name' = _vector_to_name(v, shape)
          /\ err' = "none"
          /\ UNCHANGED <<tess, self, orig, prev_amount, vec, shared, circuit, frame, automaton_vars>>

VectorAdd ==
    /\ op = "init"
    /\ \E v1 \in Vectors, v2 \in Vectors :
          /\ op' = "add"
          /\ args' = <<v1, v2>>
          /\ vec' = add(v1, v2)
          /\ err' = "none"
          /\ UNCHANGED <<tess, self, orig, prev_amount, name, shared, circuit, frame, automaton_vars>>

VectorSub ==
    /\ op = "init"
    /\ \E v1 \in Vectors, v2 \in Vectors :
          /\ op' = "sub"
          /\ args' = <<v1, v2>>
          /\ vec' = sub(v1, v2)
          /\ err' = "none"
          /\ UNCHANGED <<tess, self, orig, prev_amount, name, shared, circuit, frame, automaton_vars>>

\* Tessellations built from cell lists or lines, and shifted.
\* UpdateFrame(t, circuit) for the line t = one_dimensional(n, k), shifted by
\* shift, and a cell circuit.
NewUpdateFrame ==
    /\ op = "init"
    /\ \E n \in 1..MaxFrameLine, k \in 1..MaxFrameLine, shift \in 0..1 :
          /\ one_dimensional(n, k).err = "none"
          /\ \E t \in {[cells |-> s.cells, size |-> s.size] :
                          s \in {shifted_by(one_dimensional(n, k), shift)}} :
                \E qiskit_circuit \in Circuits :
                   \E r \in {UpdateFrame(t, qiskit_circuit)} :
                      /\ op' = "UpdateFrame"
                      /\ args' = << <<n, k>>, <<shift>> >>
                      /\ err' = r.err
                      /\ tess' = t
                      /\ circuit' = qiskit_circuit
                      /\ frame' = r.frame
                      /\ self' = NoTess
                      /\ orig' = NoTess
                      /\ prev_amount' = 0
                      /\ vec' = <<>>
                      /\ name' = 0
                      /\ shared' = {}
                      /\ UNCHANGED automaton_vars

\* The variables of the lattice functions, which no operation on an Automaton
\* touches.
lattice_vars == <<tess, self, orig, prev_amount, vec, name, shared, circuit, frame>>

\* Automaton(initial_state, frames, backend) on a lattice of n sites.
NewAutomaton(by_threads) ==
    /\ op = "init"
    /\ \E n \in 1..MaxLattice :
          \E initial_state \in Bits(n), backend \in BOOLEAN,
             frames \in FrameLists(FrameChoices(n), by_threads) :
             \E a \in {Automaton(initial_state, frames, backend)} :
                /\ op' = "Automaton"
                /\ args' = << initial_state >>
                /\ err' = "none"
                /\ automaton' = a
                /\ UNCHANGED ticking
                /\ UNCHANGED lattice_vars

\* PQCA(initial_state, frames, backend) of the package before, on a lattice
\* of n sites, its frames built by either package.
NewPQCA(by_threads) ==
    /\ op = "init"
    /\ \E n \in 1..MaxLattice :
          \E initial_state \in Bits(n), backend \in BOOLEAN,
             frames \in FrameLists(FrameChoices(n) \cup LegacyFrameChoices(n),
                                   by_threads) :
             \E r \in {PQCA(initial_state, frames, backend)} :
                /\ op' = "PQCA"
                /\ args' = << initial_state >>
                /\ err' = r.err
                /\ automaton' = r.automaton
                /\ UNCHANGED ticking
                /\ UNCHANGED lattice_vars

\* Thread t calls one of methods: next(automaton), automaton.tick() or
\* automaton.iterate(number_of_iterations).
Call(t, methods) ==
    /\ automaton # NoAutomaton
    /\ ticking.thread[t].pc = "ready"
    /\ \E method \in methods :
          \E number_of_iterations \in
                (IF method = "iterate" THEN 0..MaxIter ELSE {0}) :
             /\ (automaton.class = "Automaton") => method # "tick"
             /\ (automaton.class = "PQCA") => method # "next"
             /\ ticking' = [ticking EXCEPT !.thread[t] =
                               begin(automaton, method, number_of_iterations)]
    /\ UNCHANGED <<op, args, err, automaton>>
    /\ UNCHANGED lattice_vars

\* The first part of a tick in thread t.
TickPrepare(t) ==
    /\ ticking.thread[t].pc = "called"
    /\ ticking' = [ticking EXCEPT !.thread[t] =
                      prepare(@, automaton, ticking.last_assigned)]
    /\ UNCHANGED <<op, args, err, automaton>>
    /\ UNCHANGED lattice_vars

\* The evaluator returns to thread t, or raises: any bits or failure to
\* next(), the outcomes iterate is run with to tick() and iterate().
TickEvaluate(t) ==
    /\ ticking.thread[t].pc = "prepared"
    /\ \E outcome \in
             (IF ticking.thread[t].call = "next"
              THEN Outcomes(automaton.update_circuit.num_qubits)
              ELSE IterateOutcomes(automaton.update_circuit.num_qubits)) :
          ticking' = [ticking EXCEPT !.thread[t] = evaluated(@, outcome)]
    /\ UNCHANGED <<op, args, err, automaton>>
    /\ UNCHANGED lattice_vars

\* The last statement of a tick in thread t.  The calls of the other threads
\* that are under way have had the state assigned under them.
TickAssign(t) ==
    /\ ticking.thread[t].pc = "evaluated"
    /\ automaton' = assign_state(automaton, ticking.thread[t].next_pattern,
                                 ticking.thread[t].prepared_from)
    /\ ticking' =
          [thread |->
              [u \in Threads |->
                  IF u = t THEN [ticking.thread[u] EXCEPT !.pc = "assigned"]
                  ELSE IF ticking.thread[u].pc \in {"called", "prepared",
                                                    "evaluated", "assigned"}
                  THEN [ticking.thread[u] EXCEPT !.disturbed = TRUE]
                  ELSE ticking.thread[u]],
           last_assigned |-> t]
    /\ UNCHANGED <<op, args, err>>
    /\ UNCHANGED lattice_vars

\* What follows the tick in the method thread t called.
TickReturn(t) ==
    /\ ticking.thread[t].pc = "assigned"
    /\ ticking' = [ticking EXCEPT !.thread[t] = after_tick(@, automaton)]
    /\ UNCHANGED <<op, args, err, automaton>>
    /\ UNCHANGED lattice_vars

\* The caller of thread t has what its call returned or raised, and is ready
\* to call again.
Done(t) ==
    /\ ticking.thread[t].pc \in {"returned", "raised"}
    /\ ticking' = [ticking EXCEPT !.thread[t] = Idle]
    /\ UNCHANGED <<op, args, err, automaton>>
    /\ UNCHANGED lattice_vars

Next == Construct \/ OneDimensional \/ ShiftedBy

Spec == Init /\ [][Next]_vars

\* The lattice functions and the vector arithmetic under them.
NextLattice == NDimensional \/ OneDimensional \/ VectorToName \/ VectorAdd \/ VectorSub

SpecLattice == Init /\ [][NextLattice]_vars

\* Constructed partitions, shifted and then renamed.
NextRename == Construct \/ ShiftedBy \/ UpdateNames

SpecRename == Init /\ [][NextRename]_vars

\* A cell circuit wound over a line.
NextFrame == NewUpdateFrame

SpecFrame == Init /\ [][NextFrame]_vars

\* An Automaton or a PQCA and one caller, whose calls follow one another.
NextAutomaton ==
    \/ NewAutomaton(FALSE)
    \/ NewPQCA(FALSE)
    \/ Call(1, {"next", "tick", "iterate"})
    \/ TickPrepare(1)
    \/ TickEvaluate(1)
    \/ TickAssign(1)
    \/ TickReturn(1)
    \/ Done(1)

SpecAutomaton == Init /\ [][NextAutomaton]_vars

\* Two threads, each making one call on the same Automaton or PQCA, thread 1
\* any call and thread 2 a single tick, their statements interleaved in any
\* order.
NextThreads ==
    \/ NewAutomaton(TRUE)
    \/ NewPQCA(TRUE)
    \/ Call(1, {"next", "tick", "iterate"})
    \/ Call(2, {"next", "tick"})
    \/ \E t \in Threads : TickPrepare(t)
    \/ \E t \in Threads : TickEvaluate(t)
    \/ \E t \in Threads : TickAssign(t)
    \/ \E t \in Threads : TickReturn(t)

SpecThreads == Init /\ [][NextThreads]_vars

\* The two n_dimensional functions of the repository.
NextLegacy == LegacyNDimensional \/ NDimensional

SpecLegacy == Init /\ [][NextLegacy]_vars

----------------------------------------------------------------------------
(* Vocabulary of the properties. *)

RECURSIVE Prod(_)
Prod(s) == IF s = <<>> THEN 1 ELSE Head(s) * Prod(Tail(s))

Positions(cells) ==
    UNION {{<<i, j>> : j \in 1..Len(cells[i])} : i \in 1..Len(cells)}

Occurrences(cells, q) ==
    Cardinality({p \in Positions(cells) : cells[p[1]][p[2]] = q})

\* every index of [0, n) is listed exactly once, and nothing else is listed
CoversExactly(cells, n) ==
    /\ \A q \in 0..(n - 1) : Occurrences(cells, q) = 1
    /\ \A p \in Positions(cells) : cells[p[1]][p[2]] \in 0..(n - 1)

Amount == args[1][1]

----------------------------------------------------------------------------
(* Tessellation(cells) *)

\* C1: every cell list the constructor accepts covers [0, size) exactly once,
\* size being the number of listed sites: no gap, duplicate, negative or
\* out-of-range index.
C1_AcceptedCoversRange ==
    (op = "Tessellation" /\ err = "none") =>
        /\ tess.size = Cardinality(Positions(args))
        /\ CoversExactly(tess.cells, tess.size)

HasIrregularCell(cells) ==
    \E i, j \in 1..Len(cells) : Len(cells[i]) # Len(cells[j])

\* The first violated invariant, in the order of the checks: no cell, first
\* cell empty, a site of [0, size) listed no times or several times or a
\* listed name outside [0, size), cells of different sizes.
FirstViolation(cells) ==
    IF cells = <<>> THEN "NoCellsException"
    ELSE IF cells[1] = <<>> THEN "EmptyCellException"
    ELSE IF ~CoversExactly(cells, SumLens(cells))
    THEN "PartitionUnevenlyCoversQubits"
    ELSE IF HasIrregularCell(cells) THEN "IrregularCellSize"
    ELSE "none"

\* C2: the constructor raises the first violated invariant in the order
\* NoCells, EmptyCell (first cell), UnevenCoverage (the cells do not cover
\* [0, size) exactly once), IrregularCellSize; [] gives NoCells, [[]]
\* EmptyCell, [[0],[0]] and [[0],[0,1]] UnevenCoverage, [[0],[1,2]]
\* IrregularCellSize; a call that raises returns no Tessellation.
C2_FirstViolationRaised ==
    op = "Tessellation" =>
        /\ err = FirstViolation(args)
        /\ err # "none" => tess = NoTess
        /\ args = <<>> => err = "NoCellsException"
        /\ args = << <<>> >> => err = "EmptyCellException"
        /\ args = << <<0>>, <<0>> >> => err = "PartitionUnevenlyCoversQubits"
        /\ args = << <<0>>, <<1, 2>> >> => err = "IrregularCellSize"
        /\ args = << <<0>>, <<0, 1>> >> => err = "PartitionUnevenlyCoversQubits"

----------------------------------------------------------------------------
(* n_dimensional, one_dimensional, _vector_to_name *)

Divides(shape, cell_shape) ==
    /\ Len(shape) = Len(cell_shape)
    /\ \A i \in 1..Len(shape) :
          shape[i] > 0 /\ cell_shape[i] > 0 /\ shape[i] % cell_shape[i] = 0

\* C3: when every cell extent is positive and divides the positive lattice
\* extent, n_dimensional returns prod(shape[i] / cell_shape[i]) cells of
\* prod(cell_shape[i]) sites each, which hold every index of [0, prod(shape))
\* exactly once.
C3_NDimensionalPartitions ==
    (op = "n_dimensional" /\ Divides(args[1], args[2])) =>
        /\ err = "none"
        /\ Len(tess.cells) =
               Prod([i \in 1..Len(args[1]) |-> args[1][i] \div args[2][i]])
        /\ \A c \in 1..Len(tess.cells) : Len(tess.cells[c]) = Prod(args[2])
        /\ CoversExactly(tess.cells, Prod(args[1]))

C3_Witness ==
    /\ op = "n_dimensional"
    /\ args = << <<4, 4>>, <<2, 2>> >>
    /\ err = "none"
    /\ Len(tess.cells) = 4
    /\ tess.cells[2] = <<2, 3, 6, 7>>

RECURSIVE TrailingProduct(_, _)
TrailingProduct(shape, i) ==
    IF i >= Len(shape) THEN 1 ELSE shape[i + 1] * TrailingProduct(shape, i + 1)

RECURSIVE RowMajorSum(_, _, _)
RowMajorSum(v, shape, i) ==
    IF i > Len(v) THEN 0
    ELSE v[i] * TrailingProduct(shape, i) + RowMajorSum(v, shape, i + 1)

\* C4: for v and shape of the same length, _vector_to_name(v, shape) is the sum
\* over i of v[i] times the product of the extents after i (row-major, the
\* first extent is never a weight).
C4_RowMajorIndex ==
    (op = "_vector_to_name" /\ Len(args[1]) = Len(args[2])) =>
        name = RowMajorSum(args[1], args[2], 1)

C4_Witness ==
    /\ op = "_vector_to_name"
    /\ args = << <<1, 2>>, <<4, 3>> >>
    /\ name = 1 * 3 + 2

InBounds(v, shape) ==
    /\ Len(v) = Len(shape)
    /\ \A i \in 1..Len(v) : 0 <= v[i] /\ v[i] < shape[i]

\* successive remainder and division by the trailing extents
RECURSIVE DecodeName(_, _)
DecodeName(n, shape) ==
    IF shape = <<>> THEN <<>>
    ELSE LET D == Len(shape) IN
         Append(DecodeName(n \div shape[D], SubSeq(shape, 1, D - 1)), n % shape[D])

\* C5: for an in-bounds vector v, decoding _vector_to_name(v, shape) under shape
\* gives v back, the index lies in [0, prod(shape)), and every index of that
\* range is the index of its decoding.
C5_RoundTrip ==
    (op = "_vector_to_name" /\ InBounds(args[1], args[2])) =>
        /\ DecodeName(name, args[2]) = args[1]
        /\ name \in 0..(Prod(args[2]) - 1)
        /\ \A n \in 0..(Prod(args[2]) - 1) :
              /\ InBounds(DecodeName(n, args[2]), args[2])
              /\ _vector_to_name(DecodeName(n, args[2]), args[2]) = n

C5_Witness ==
    /\ op = "_vector_to_name"
    /\ args = << <<3, 2>>, <<4, 3>> >>
    /\ name = 11
    /\ DecodeName(name, args[2]) = <<3, 2>>

\* the consecutive runs [0..k-1], [k..2k-1], ... of a line of n sites
Runs(n, k) == [c \in 1..(n \div k) |-> [p \in 1..k |-> (c - 1) * k + (p - 1)]]

\* C6: for k dividing n, one_dimensional(n, k) returns what
\* n_dimensional([n], [k]) returns, and for n > 0 that is the list of
\* consecutive runs of k sites, in order.
C6_OneDimensionalIsRuns ==
    (op = "one_dimensional" /\ args[2][1] > 0 /\ args[1][1] % args[2][1] = 0) =>
        LET n == args[1][1]
            k == args[2][1]
            nd == n_dimensional(<<n>>, <<k>>)
        IN /\ err = nd.err
           /\ tess.cells = nd.cells
           /\ n > 0 => (err = "none" /\ tess.cells = Runs(n, k))

C6_Witness ==
    /\ op = "one_dimensional"
    /\ args = << <<10>>, <<2>> >>
    /\ tess.cells = << <<0, 1>>, <<2, 3>>, <<4, 5>>, <<6, 7>>, <<8, 9>> >>

\* C7: add and sub of vectors of different lengths fail with
\* DimensionMismatch and return no vector.
C7_LengthMismatchRaises ==
    (op \in {"add", "sub"} /\ Len(args[1]) # Len(args[2])) =>
        (err = "DimensionMismatch" /\ vec = <<>>)

\* C8: n_dimensional fails with IrregularCoordinateDimensions and returns no
\* Tessellation when some cell extent is 0 or does not divide the lattice
\* extent of its dimension.
C8_IndivisibleRaises ==
    (/\ op = "n_dimensional"
     /\ \E i \in 1..Min(Len(args[1]), Len(args[2])) :
           args[2][i] = 0 \/ args[1][i] % args[2][i] # 0) =>
        (err = "IrregularCoordinateDimensions" /\ tess = NoTess)

C8_Witness ==
    /\ op = "n_dimensional"
    /\ args = << <<4, 2>>, <<2, 3>> >>
    /\ err = "IrregularCoordinateDimensions"
    /\ tess = NoTess

\* C9: n_dimensional fails with IrregularCoordinateDimensions, and returns no
\* Tessellation, when shape and cell_shape differ in length, whichever is
\* the longer.
C9_ArityMismatchRaises ==
    (op = "n_dimensional" /\ Len(args[1]) # Len(args[2])) =>
        (err = "IrregularCoordinateDimensions" /\ tess = NoTess)

----------------------------------------------------------------------------
(* shifted_by *)

\* C10: for a Tessellation t covering [0, size) and any amount a,
\* t.shifted_by(a).shifted_by(-a) succeeds and has the cell list of t.
C10_ShiftRoundTrip ==
    (/\ op = "shifted_by"
     /\ orig # NoTess
     /\ CoversExactly(orig.cells, orig.size)
     /\ Amount = -prev_amount) =>
        (err = "none" /\ tess.cells = orig.cells)

C10_Witness ==
    /\ op = "shifted_by"
    /\ orig = [cells |-> << <<0, 1>>, <<2, 3>> >>, size |-> 4]
    /\ prev_amount = -7
    /\ self.cells = << <<1, 2>>, <<3, 0>> >>
    /\ Amount = 7
    /\ tess.cells = orig.cells

\* C11: shifted_by(t, amount) is update_names(t, x -> x + amount, wrap): when it
\* returns, the site at position p of cell c is (t.cells[c][p] + amount) mod
\* size, in [0, size), with the cells and positions of t; it returns for every
\* t covering [0, size).
C11_ShiftIsModulo ==
    op = "shifted_by" =>
        LET renamed == update_names(self, [x \in Int |-> x + Amount], TRUE) IN
        /\ err = renamed.err
        /\ tess.cells = renamed.cells
        /\ err = "none" =>
              /\ Len(tess.cells) = Len(self.cells)
              /\ \A c \in 1..Len(self.cells) :
                    /\ Len(tess.cells[c]) = Len(self.cells[c])
                    /\ \A p \in 1..Len(self.cells[c]) :
                          tess.cells[c][p] = (self.cells[c][p] + Amount) % self.size
        /\ CoversExactly(self.cells, self.size) => err = "none"

C11_Witness ==
    /\ op = "shifted_by"
    /\ self.cells = << <<0, 1>>, <<2, 3>> >>
    /\ Amount = 1
    /\ tess.cells = << <<1, 2>>, <<3, 0>> >>

----------------------------------------------------------------------------
(* update_names *)

\* C12: update_names without the wrap returns a Tessellation only if the
\* renamed cells cover [0, size) exactly; otherwise it fails with the
\* constructor's error for them.
C12_UnwrappedRenameValidated ==
    (op = "update_names" /\ args[2][1] = 0) =>
        /\ err = Tessellation([c \in 1..Len(self.cells) |->
                     [p \in 1..Len(self.cells[c]) |->
                         args[1][1] * self.cells[c][p] + args[1][2]]]).err
        /\ err = "none" => CoversExactly(tess.cells, tess.size)

----------------------------------------------------------------------------
(* UpdateFrame *)

\* C13: a wound frame has len(cells) * len(ops) instructions, and the one at
\* position c * len(ops) + k is ops[k] with its payload and classical
\* arguments unchanged and every qubit q replaced by cells[c][q].
C13_WindingByCell ==
    (op = "UpdateFrame" /\ err = "none") =>
        LET ops == circuit.data
            out == frame.full_circuit_instructions
        IN /\ Len(out) = Len(tess.cells) * Len(ops)
           /\ \A c \in 0..(Len(tess.cells) - 1), k \in 0..(Len(ops) - 1) :
                 LET e == out[c * Len(ops) + k + 1] IN
                 /\ e.instruction = ops[k + 1].instruction
                 /\ e.cargs = ops[k + 1].cargs
                 /\ Len(e.qargs) = Len(ops[k + 1].qargs)
                 /\ \A j \in 1..Len(e.qargs) :
                       e.qargs[j] = tess.cells[c + 1][ops[k + 1].qargs[j] + 1]

C13_Witness ==
    /\ op = "UpdateFrame"
    /\ args = << <<4, 2>>, <<0>> >>
    /\ circuit.data = << [instruction |-> "cx", qargs |-> <<1, 0>>, cargs |-> <<>>] >>
    /\ frame.full_circuit_instructions =
          << [instruction |-> "cx", qargs |-> <<1, 0>>, cargs |-> <<>>],
             [instruction |-> "cx", qargs |-> <<3, 2>>, cargs |-> <<>>] >>

\* C14: UpdateFrame raises CircuitWrongShapeForCell, and builds no frame,
\* exactly when the cell circuit has more qubits than a cell has sites,
\* whether or not an instruction uses them.
C14_TooBigRaises ==
    op = "UpdateFrame" =>
        /\ err = "CircuitWrongShapeForCell" <=> circuit.num_qubits > Len(tess.cells[1])
        /\ err \in {"none", "CircuitWrongShapeForCell"}
        /\ err # "none" => frame = NoFrame
        /\ err = "none" => frame.cell_circuit = circuit
        /\ (\E k \in 1..Len(circuit.data) : \E j \in 1..Len(circuit.data[k].qargs) :
                circuit.data[k].qargs[j] >= Len(tess.cells[1]))
              => err = "CircuitWrongShapeForCell"

C14_Witness ==
    /\ op = "UpdateFrame"
    /\ args = << <<4, 2>>, <<1>> >>
    /\ circuit = [num_qubits |-> 3, data |-> <<>>]
    /\ err = "CircuitWrongShapeForCell"
    /\ frame = NoFrame

----------------------------------------------------------------------------
(* Automaton *)

SetSites(state) == {q \in 0..(Len(state) - 1) : state[q + 1] # 0}

\* handed is one x for each set site of state, in ascending order of the
\* sites, followed by update
PreparesThenUpdates(handed, state, update) ==
    LET n == Len(handed) - Len(update) IN
    /\ n = Cardinality(SetSites(state))
    /\ \A i \in 1..n :
          /\ handed[i].instruction = "x"
          /\ Len(handed[i].qargs) = 1
          /\ handed[i].qargs[1] \in SetSites(state)
          /\ handed[i].cargs = <<>>
    /\ \A i \in 1..(n - 1) : handed[i].qargs[1] < handed[i + 1].qargs[1]
    /\ \A i \in 1..Len(update) : handed[n + i] = update[i]

\* No other thread has called: the calls of thread t follow one another.
Alone(t) == \A u \in Threads \ {t} : ticking.thread[u].pc = "ready"

\* C15: a next() that returns, no other call having assigned the state under
\* it, handed the evaluator one circuit, the preparation of the state held
\* when it began (one x per set site, ascending, none for unset sites)
\* followed by the update instructions; the bits the evaluator returned are
\* what it returns, and are the state until the next assignment; the call
\* that prepares next is prepared from them.
C15_TickPreparesFromState ==
    \A t \in Threads :
       LET c == ticking.thread[t] IN
       (c.call = "next" /\ c.pc = "returned" /\ ~c.disturbed) =>
          /\ Len(c.calls) = 1
          /\ c.calls[1].circuit.num_qubits = Len(c.before.state)
          /\ c.prepared_from = c.before.state
          /\ PreparesThenUpdates(c.calls[1].circuit.data, c.before.state,
                                 automaton.update_instruction)
          /\ c.result = c.calls[1].outcome.bits
          /\ ticking.last_assigned = t => automaton.state = c.result
          /\ \A u \in Threads \ {t} :
                LET d == ticking.thread[u] IN
                (d.call = "next" /\ d.pc = "returned" /\ ~d.disturbed
                    /\ d.prepared_after = t) =>
                   d.prepared_from = c.result

\* thread 1 was handed x(1) cx(0, 1) for <<0, 1>> and returned <<1, 1>>; then
\* thread 2 was handed x(0) x(1) cx(0, 1)
C15_Witness ==
    /\ ticking.thread[1].call = "next"
    /\ ticking.thread[1].pc = "returned"
    /\ ~ticking.thread[1].disturbed
    /\ ticking.thread[1].before.state = <<0, 1>>
    /\ ticking.thread[1].calls[1].circuit.data =
          << [instruction |-> "x", qargs |-> <<1>>, cargs |-> <<>>],
             [instruction |-> "cx", qargs |-> <<0, 1>>, cargs |-> <<>>] >>
    /\ ticking.thread[1].result = <<1, 1>>
    /\ ticking.thread[2].call = "next"
    /\ ticking.thread[2].pc = "returned"
    /\ ~ticking.thread[2].disturbed
    /\ ticking.thread[2].prepared_after = 1
    /\ ticking.thread[2].calls[1].circuit.data =
          << [instruction |-> "x", qargs |-> <<0>>, cargs |-> <<>>],
             [instruction |-> "x", qargs |-> <<1>>, cargs |-> <<>>],
             [instruction |-> "cx", qargs |-> <<0, 1>>, cargs |-> <<>>] >>
    /\ ticking.thread[2].result = <<1, 0>>
    /\ automaton.state = <<1, 0>>

\* The evaluator was bound, never failed and returned one bit per site.
EvaluatorKeptContract(c) ==
    /\ c.before.backend \/ c.number_of_iterations = 0
    /\ \A i \in 1..Len(c.calls) :
          /\ c.calls[i].outcome.success
          /\ Len(c.calls[i].outcome.bits) = Len(c.before.state)

\* C16: iterate(n) with an evaluator that does not fail invokes it n times and
\* returns the n states it returned, in order, the last being the state
\* held afterwards; iterate(0) invokes nothing, returns the empty list and
\* leaves the automaton as it was.
C16_IterateReturnsEachState ==
    \A t \in Threads :
       LET c == ticking.thread[t]
           n == c.number_of_iterations
       IN (c.call = "iterate" /\ c.pc \in {"returned", "raised"} /\ Alone(t)
              /\ EvaluatorKeptContract(c)) =>
             /\ c.err = "none"
             /\ Len(c.calls) = n
             /\ Len(c.result) = n
             /\ \A i \in 1..n : c.result[i] = c.calls[i].outcome.bits
             /\ n >= 1 => c.result[n] = automaton.state
             /\ n = 0 => (c.calls = <<>> /\ c.result = <<>> /\ automaton = c.before)

\* C17: a next() that fails, its caller the only one, leaves the Automaton
\* as it was and returns nothing: without an evaluator it raises before any
\* invocation, and a failure of the evaluator is raised as BackendError with
\* the evaluator's status, after the one invocation.
C17_FailedTickChangesNothing ==
    \A t \in Threads :
       LET c == ticking.thread[t] IN
       (c.call = "next" /\ c.pc \in {"returned", "raised"} /\ Alone(t)) =>
          /\ c.err # "none" => (automaton = c.before /\ c.result = <<>>)
          /\ ~c.before.backend => (c.err = "AssertionError" /\ c.calls = <<>>)
          /\ Len(c.calls) <= 1
          /\ (Len(c.calls) = 1 /\ ~c.calls[1].outcome.success) =>
                (c.err = "BackendError" /\ c.status = c.calls[1].outcome.status)
          /\ c.err = "BackendError" =>
                (Len(c.calls) = 1 /\ ~c.calls[1].outcome.success)

C17_Witness ==
    /\ ticking.thread[1].call = "next"
    /\ ticking.thread[1].pc = "raised"
    /\ ticking.thread[1].err = "BackendError"
    /\ ticking.thread[1].status = "CANCELLED"
    /\ Len(ticking.thread[1].calls) = 1
    /\ ticking.thread[1].before.state = <<1, 0>>
    /\ automaton.state = <<1, 0>>
    /\ Alone(1)

RECURSIVE Offset(_, _)
Offset(frames, f) ==
    IF f <= 1 THEN 0
    ELSE Offset(frames, f - 1) + Len(frames[f - 1].full_circuit_instructions)

\* C18: the update instructions are the frames' wound instructions, frame
\* after frame in the order of the frame list; no operation on the Automaton
\* changes the frames or the update instructions, and every circuit handed
\* to the evaluator ends with them.
C18_UpdatePartFixed ==
    /\ [](automaton # NoAutomaton =>
             /\ Len(automaton.update_instruction)
                   = Offset(automaton.frames, Len(automaton.frames) + 1)
             /\ \A f \in 1..Len(automaton.frames) :
                   \A k \in 1..Len(automaton.frames[f].full_circuit_instructions) :
                      automaton.update_instruction[Offset(automaton.frames, f) + k]
                         = automaton.frames[f].full_circuit_instructions[k]
             /\ automaton.update_circuit.data = automaton.update_instruction
             /\ \A t \in Threads :
                   \A i \in 1..Len(ticking.thread[t].calls) :
                      LET handed == ticking.thread[t].calls[i].circuit.data
                          n == Len(handed) - Len(automaton.update_instruction)
                      IN /\ n >= 0
                         /\ \A k \in 1..Len(automaton.update_instruction) :
                               handed[n + k] = automaton.update_instruction[k])
    /\ [][automaton # NoAutomaton =>
             /\ automaton'.frames = automaton.frames
             /\ automaton'.update_instruction = automaton.update_instruction
             /\ automaton'.update_circuit = automaton.update_circuit]_vars

C18_Witness ==
    /\ ticking.thread[1].call = "next"
    /\ ticking.thread[1].pc = "returned"
    /\ Len(automaton.frames) = 2
    /\ automaton.update_instruction =
          << [instruction |-> "x", qargs |-> <<0>>, cargs |-> <<>>],
             [instruction |-> "x", qargs |-> <<1>>, cargs |-> <<>>],
             [instruction |-> "cx", qargs |-> <<1, 0>>, cargs |-> <<>>] >>
    /\ Len(ticking.thread[1].calls) = 1

----------------------------------------------------------------------------
(* The receiver of a renaming *)

\* C19: shifted_by and update_names, returning or raising, leave the cell list
\* and the size of the Tessellation they are called on as they were, and
\* what they return shares no list with it; after a second such call on the
\* result of a shift, the receiver of that shift is still as it was, and
\* the new result shares no list with it either.
C19_ReceiverUntouched ==
    [][op' \in {"shifted_by", "update_names"} =>
          /\ self' = tess
          /\ shared' = {}
          /\ op = "shifted_by" => orig' = self]_vars

\* [[0],[1]] shifted by 1, then renamed by x -> 1 without the wrap, which
\* raises: both receivers are as they were
C19_Witness ==
    /\ op = "update_names"
    /\ args = << <<0, 1>>, <<0>> >>
    /\ err = "PartitionUnevenlyCoversQubits"
    /\ orig = [cells |-> << <<0>>, <<1>> >>, size |-> 2]
    /\ self = [cells |-> << <<1>>, <<0>> >>, size |-> 2]
    /\ shared = {}

----------------------------------------------------------------------------
(* The length of the state *)

\* C20: the state of an Automaton always has one entry per site, as many as
\* the initial state had.
C20_StateKeepsLength ==
    automaton # NoAutomaton =>
        Len(automaton.state) = automaton.update_circuit.num_qubits

----------------------------------------------------------------------------
(* The order of the cells of n_dimensional *)

\* the k-th focal vector, in lexicographic order with dimension 0 slowest
FocalVector(k, shape, cell_shape) ==
    LET grid == [i \in 1..Len(shape) |-> shape[i] \div cell_shape[i]]
        at == DecodeName(k - 1, grid)
    IN [i \in 1..Len(shape) |-> at[i] * cell_shape[i]]

\* C21: in a Tessellation returned by n_dimensional, cell k is the cell of the
\* k-th focal vector in lexicographic order and lists its sites in
\* lexicographic order of their offsets; so every cell is strictly
\* increasing, begins with the index of its focal point, and the first
\* members of successive cells are strictly increasing.
C21_CellsInLexicographicOrder ==
    (op = "n_dimensional" /\ err = "none") =>
        /\ Len(args[1]) = Len(args[2]) =>
              \A k \in 1..Len(tess.cells) :
                 LET focal == FocalVector(k, args[1], args[2]) IN
                 /\ tess.cells[k][1] = RowMajorSum(focal, args[1], 1)
                 /\ \A p \in 1..Len(tess.cells[k]) :
                       LET offset == DecodeName(p - 1, args[2]) IN
                       tess.cells[k][p] =
                          RowMajorSum([i \in 1..Len(focal) |-> focal[i] + offset[i]],
                                      args[1], 1)
        /\ \A k \in 1..Len(tess.cells) :
              /\ \A p \in 1..(Len(tess.cells[k]) - 1) :
                    tess.cells[k][p] < tess.cells[k][p + 1]
              /\ \A p \in 1..Len(tess.cells[k]) : tess.cells[k][1] <= tess.cells[k][p]
        /\ \A k \in 1..(Len(tess.cells) - 1) : tess.cells[k][1] < tess.cells[k + 1][1]

C21_Witness ==
    /\ op = "n_dimensional"
    /\ args = << <<4, 4>>, <<2, 2>> >>
    /\ tess.cells = << <<0, 1, 4, 5>>, <<2, 3, 6, 7>>,
                       <<8, 9, 12, 13>>, <<10, 11, 14, 15>> >>

----------------------------------------------------------------------------
(* The sites a wound frame acts on *)

Sites(instruction) == {instruction.qargs[j] : j \in 1..Len(instruction.qargs)}

CellSites(t, c) == {t.cells[c][p] : p \in 1..Len(t.cells[c])}

\* C22: over a Tessellation covering [0, size), every qubit of a wound
\* instruction is a site of [0, size), the qubits of one instruction lie in
\* one cell, distinct qubits of the cell circuit become distinct sites, and
\* instructions wound onto different cells share no site.
C22_WoundSitesStayInCells ==
    (op = "UpdateFrame" /\ err = "none" /\ CoversExactly(tess.cells, tess.size)) =>
        LET ops == circuit.data
            out == frame.full_circuit_instructions
            CellOf(i) == ((i - 1) \div Len(ops)) + 1
            OpOf(i) == ops[((i - 1) % Len(ops)) + 1]
        IN /\ \A i \in 1..Len(out) :
                 /\ Sites(out[i]) \subseteq 0..(tess.size - 1)
                 /\ Cardinality({c \in 1..Len(tess.cells) :
                                    Sites(out[i]) \subseteq CellSites(tess, c)}) = 1
                 /\ Sites(out[i]) \subseteq CellSites(tess, CellOf(i))
                 /\ \A j1, j2 \in 1..Len(out[i].qargs) :
                       OpOf(i).qargs[j1] # OpOf(i).qargs[j2]
                          => out[i].qargs[j1] # out[i].qargs[j2]
           /\ \A i1, i2 \in 1..Len(out) :
                 CellOf(i1) # CellOf(i2) => Sites(out[i1]) \cap Sites(out[i2]) = {}

C22_Witness ==
    /\ op = "UpdateFrame"
    /\ args = << <<4, 2>>, <<1>> >>
    /\ circuit.data = << [instruction |-> "cx", qargs |-> <<0, 1>>, cargs |-> <<>>] >>
    /\ frame.full_circuit_instructions =
          << [instruction |-> "cx", qargs |-> <<1, 2>>, cargs |-> <<>>],
             [instruction |-> "cx", qargs |-> <<3, 0>>, cargs |-> <<>>] >>

----------------------------------------------------------------------------
(* iterate with a failing evaluator *)

\* C23: when the evaluator fails at its k-th invocation by iterate(n), the
\* caller the only one, iterate raises that BackendError and returns no
\* list, the evaluator is not invoked again, and the state is the one the
\* tick before returned (the state iterate began with when k = 1).
C23_IterateStopsAtFailure ==
    \A t \in Threads :
       LET c == ticking.thread[t]
           k == Len(c.calls)
       IN (c.call = "iterate" /\ c.calls # <<>> /\ ~c.calls[k].outcome.success
              /\ Alone(t)) =>
             /\ c.pc = "raised"
             /\ c.err = "BackendError"
             /\ c.status = c.calls[k].outcome.status
             /\ c.result = <<>>
             /\ k <= c.number_of_iterations
             /\ \A i \in 1..(k - 1) : c.calls[i].outcome.success
             /\ automaton.state =
                   IF k = 1 THEN c.before.state ELSE c.calls[k - 1].outcome.bits
             /\ automaton = [c.before EXCEPT !.state = automaton.state]

C23_Witness ==
    /\ automaton.class = "PQCA"
    /\ ticking.thread[1].call = "iterate"
    /\ ticking.thread[1].number_of_iterations = 2
    /\ ticking.thread[1].pc = "raised"
    /\ ticking.thread[1].before.state = <<1, 0>>
    /\ Len(ticking.thread[1].calls) = 2
    /\ ticking.thread[1].calls[1].outcome.bits = <<0, 0>>
    /\ ticking.thread[1].err = "BackendError"
    /\ automaton.state = <<0, 0>>
    /\ Alone(1)

----------------------------------------------------------------------------
(* Overlapping ticks *)

\* C24: _tick reads the state, calls the evaluator and only then assigns the
\* state, with nothing that keeps another call out.  When two calls of
\* next() have both returned, the state is what the evaluator returned to
\* the one that assigned last, which is what that one returns; the other
\* returns what the evaluator returned to it, or to the last one if that one
\* assigned before the return; if the last one prepared its circuit before
\* the other assigned (the calls overlapped), both circuits were prepared
\* from the initial state and the state is one evaluator step from it; if it
\* prepared after the other assigned (the calls were serialized), its circuit
\* was prepared from what the other was returned, two steps in a row.
C24_OverlappingTicksLoseAStep ==
    (\A t \in Threads : /\ ticking.thread[t].call = "next"
                        /\ ticking.thread[t].pc = "returned") =>
        LET last == ticking.last_assigned
            first == CHOOSE t \in Threads : t # last
            l == ticking.thread[last]
            f == ticking.thread[first]
        IN /\ last \in Threads
           /\ automaton.state = l.next_pattern
           /\ l.result = l.next_pattern
           /\ f.result \in {f.next_pattern, l.next_pattern}
           /\ ~f.disturbed => f.result = f.next_pattern
           /\ \A t \in Threads :
                 PreparesThenUpdates(ticking.thread[t].combined_circuit.data,
                                     ticking.thread[t].prepared_from,
                                     automaton.update_instruction)
           /\ f.prepared_after = 0
           /\ f.prepared_from = args[1]
           /\ l.prepared_after = 0 => l.prepared_from = args[1]
           /\ l.prepared_after = first => l.prepared_from = f.next_pattern

\* both calls prepared from <<1, 0>>; the evaluator returned <<1, 1>> to
\* thread 2, which assigned first, and <<0, 0>> to thread 1, which assigned
\* before thread 2 returned
C24_Witness ==
    /\ args = << <<1, 0>> >>
    /\ \A t \in Threads : /\ ticking.thread[t].call = "next"
                          /\ ticking.thread[t].pc = "returned"
                          /\ ticking.thread[t].prepared_from = <<1, 0>>
    /\ ticking.thread[1].next_pattern = <<0, 0>>
    /\ ticking.thread[2].next_pattern = <<1, 1>>
    /\ ticking.thread[2].result = <<0, 0>>
    /\ ticking.last_assigned = 1
    /\ automaton.state = <<0, 0>>

----------------------------------------------------------------------------
(* The legacy n_dimensional *)

\* C25: for a shape and a cell shape of the same length, every cell extent
\* dividing the lattice extent, the legacy n_dimensional returns the cell
\* list the current n_dimensional returns.
C25_LegacyAgrees ==
    (op = "legacy_n_dimensional" /\ Divides(args[1], args[2])) =>
        LET current == n_dimensional(args[1], args[2]) IN
        /\ err = "none"
        /\ current.err = "none"
        /\ tess.cells = current.cells

====
